---- MODULE Spec2Model ----
(***************************************************************************)
(* A model of miniredis: the connection server (server/server.go), the     *)
(* Miniredis wrapper around it (miniredis.go) and the string commands      *)
(* (cmd_string.go).                                                        *)
(*                                                                         *)
(* Every goroutine of the program is a process of the model: the accept    *)
(* loop, one worker per connection handed to ServeConn, and the callers of *)
(* Miniredis.Close.  A critical section of a mutex that contains no        *)
(* blocking call is one atomic action guarded by the mutex being free.     *)
(***************************************************************************)
EXTENDS Integers, Sequences, FiniteSets, TLC

\* ---------------------------------------------------------------- bounds
MaxConns == 2       \* connections ever handed to ServeConn
MaxReqs == 1        \* request frames a client sends on one connection
MaxPipeline == 2    \* request frames of the client that pipelines
MaxClosers == 2     \* goroutines calling Miniredis.Close
MaxNameLen == 1     \* letters in a command name
MaxArgs == 1        \* arguments after the command name in a frame
MaxAuthChecks == 2  \* NOAUTH errors a peer is sent
MaxDbId == 2        \* the largest database id the callers name
MaxSubReqs == 3     \* request frames of the client that subscribes and unsubscribes

Conns == 1..MaxConns
Closers == 1..MaxClosers

\* ------------------------------------------------------- names and frames
\* A command name is a sequence of letters; strings.ToUpper maps it letter
\* by letter.
Chars == {"q", "Q", "s", "S", "g", "G", "u", "U"}

UpperChar(ch) ==
    CASE ch = "q" -> "Q"
      [] ch = "s" -> "S"
      [] ch = "g" -> "G"
      [] ch = "u" -> "U"
      [] OTHER -> ch

ToUpper(s) == [i \in DOMAIN s |-> UpperChar(s[i])]

SeqsUpTo(n, S) == UNION {[1..k -> S] : k \in 0..n}

Names == SeqsUpTo(MaxNameLen, Chars) \ {<<>>}
ArgLists == SeqsUpTo(MaxArgs, {"a"})

\* A request frame as readArray returns it: the name, then the arguments.
Frames == {<<n>> \o a : n \in Names, a \in ArgLists}

\* The behaviours a registered handler (a Cmd callback) can have.
Handlers == {"plain", "quit", "sub"}

Free == <<>>                   \* the keyspace mutex is not held
NoTx == [nil |-> TRUE, cmds |-> <<>>]   \* connCtx.transaction == nil

\* The strings the commands use as keys and as values.
Strs == {"a", "b"}
\* The databases: without SELECT every connection stays on database 0.
DBs == {0}
Closer(k) == <<"closer", k>>   \* ... or is held by a caller of Close
NoSub == <<>>                  \* ctx.subscriber == nil

VARIABLES
    \* server.Server
    listening,      \* s.l != nil: the listener is open
    acceptPc,       \* the accept goroutine: "accept" or "done"
    cmds,           \* s.cmds: uppercased name -> handler
    peers,          \* s.peers
    infoConns,      \* s.infoConns
    infoCmds,       \* s.infoCmds
    wg,             \* s.wg's counter
    \* one worker goroutine and one connection per element of Conns
    wpc,            \* position of the worker
    sock,           \* server side of the connection: "open" or who closed it
    clientClosed,   \* the client has closed its end
    sockIn,         \* frames the client has written and nobody has read
    rbuf,           \* frames buffered in the worker's bufio.Reader
    cur,            \* the frame readArray returned last
    call,           \* dispatch's locals: <<cb, cmdUp, args>>
    wbuf,           \* reply items in the peer's bufio.Writer
    out,            \* reply items the connection has carried to the client
    closed,         \* Peer.closed
    onDisconnect,   \* Peer.onDisconnect
    ran,            \* the disconnect callbacks the worker has run
    \* Miniredis
    mLock,          \* holder of the Miniredis mutex
    mSrv,           \* m.srv != nil
    subscribers,    \* m.subscribers
    ctxSub,         \* connCtx.subscriber of each peer
    kpc,            \* position of each caller of Miniredis.Close
    \* history
    sent,           \* frames each client has written so far
    observed,       \* the worker has read Peer.closed as true
    log,            \* what became of each dispatched frame: the handler
                    \* invocation <<cb, cmdUp, args>>, or <<>> (unknown)
    sweptHanded,    \* connections handed to ServeConn when Close swept
    swept,          \* Server.Close has closed the listener and the peers
    srvCloses,      \* invocations of Server.Close
    lastReg,        \* the last Register call: <<cmd, f, error>>
    \* the keyspace and the per-connection context of the commands
    stringKeys,     \* m.stringKeys
    expire,         \* m.expire: the keys that have an expiry
    keyVersion,     \* RedisDB.keyVersion of each database
    transaction,    \* connCtx.transaction
    dirtyTransaction, \* connCtx.dirtyTransaction
    watch,          \* connCtx.watch
    \* history of the commands
    lastSet,        \* the last successful SET of each key: <<value, connection>>
    hit,            \* the keys a peer watches that another peer has SET since
    last,           \* the last command: <<connection, name, args, reply, hit>>
    seq,            \* flips with every command
    \* RedisDB: the type index
    keys,           \* RedisDB.keys: key -> type name
    \* authentication
    password,       \* m.password
    authenticated,  \* connCtx.authenticated
    hasCtx,         \* Peer.Ctx != nil
    apc,            \* position of handleAuth on each peer
    authPass,       \* what handleAuth is about to return
    rpc,            \* position of the caller of RequireAuth
    rpw,            \* the argument of RequireAuth
    \* the process
    alive,          \* no goroutine has ended the process with a panic
    \* the databases
    dbs,            \* m.dbs: database id -> the RedisDB it points to
    dbId,           \* RedisDB.id of every RedisDB made so far
    dbOp,           \* history: the last call, <<"DB", i, db>> or <<"SwapDB", i, j>>
    preSwap,        \* history: m.dbs when the last SwapDB had looked up its two
                    \* databases and not yet exchanged them
    dbSeq,          \* flips with every DB and SwapDB call
    \* writers of a peer
    pMu,            \* holder of Peer.mu
    wr,             \* position of each writer of a peer in its Block calls
    \* subscribers
    subCloses,      \* history: how often each subscriber has been closed
    delivered,      \* history: the subscribers the last PUBLISH delivered to
    \* transactions
    dirtiedSince,   \* history: setDirty was called on the peer after its last MULTI
    dirtyAtMulti,   \* history: the dirty flag the peer's last MULTI found
    \* the three locks
    sMu,            \* holder of Server.mu
    lpc,            \* position of each goroutine in its sequence of lock operations
    \* the accesses of Peer.closed
    flagReader,     \* position of the worker in its read of Peer.closed
    flagWriter,     \* position of another goroutine in Peer.Close
    flagSeen        \* the value the worker read last

srvVars == <<listening, acceptPc, cmds, peers, infoConns, infoCmds, wg>>
connVars == <<wpc, sock, clientClosed, sockIn, rbuf, cur, call, wbuf, out,
              closed, onDisconnect, ran>>
mVars == <<mLock, mSrv, subscribers, ctxSub, kpc>>
histVars == <<sent, observed, log, sweptHanded, swept, srvCloses, lastReg>>
kvVars == <<stringKeys, expire, keyVersion, transaction, dirtyTransaction,
            watch, lastSet, hit, last, seq>>
typeVars == <<keys>>
authVars == <<password, authenticated, hasCtx, apc, authPass, rpc, rpw>>
panicVars == <<alive>>
dbVars == <<dbs, dbId, dbOp, preSwap, dbSeq>>
writeVars == <<pMu, wr>>
subVars == <<subCloses, delivered>>
txVars == <<dirtiedSince, dirtyAtMulti>>
lockVars == <<sMu, lpc>>
raceVars == <<flagReader, flagWriter, flagSeen>>
auxVars == <<typeVars, authVars, panicVars, dbVars, writeVars, subVars, txVars, lockVars, raceVars>>
vars == <<srvVars, connVars, mVars, histVars, kvVars, auxVars>>

\* ------------------------------------------------------------------ Init
\* newRedisDB: every map of a database starts empty.
InitAux ==
    /\ keys = <<>>
    /\ password = ""
    /\ authenticated = [c \in Conns |-> FALSE]
    /\ hasCtx = [c \in Conns |-> FALSE]
    /\ apc = [c \in Conns |-> "idle"]
    /\ authPass = [c \in Conns |-> FALSE]
    /\ rpc = "idle"
    /\ rpw = ""
    /\ alive = TRUE
    /\ dbs = <<>>
    /\ dbId = <<>>
    /\ dbOp = <<>>
    /\ preSwap = <<>>
    /\ dbSeq = 0
    /\ pMu = [c \in Conns |-> "free"]
    /\ wr = [c \in Conns |-> [w \in {"handler", "pump"} |->
                                 [blk |-> 1, itm |-> 1, held |-> FALSE]]]
    /\ subCloses = <<>>
    /\ delivered = {}
    /\ dirtiedSince = [c \in Conns |-> FALSE]
    /\ dirtyAtMulti = [c \in Conns |-> FALSE]
    /\ sMu = <<>>
    /\ lpc = [g \in ({"handler", "pump"} \X Conns)
                    \cup {<<"accessor", 0>>, <<"close", 0>>} |-> 1]
    /\ flagReader = [c \in Conns |-> "idle"]
    /\ flagWriter = [c \in Conns |-> "idle"]
    /\ flagSeen = [c \in Conns |-> FALSE]

\* The registry Miniredis.start leaves behind: a command that closes the
\* connection (QUIT) and one that enters subscriber mode (SUBSCRIBE).
StartCmds == (<<"Q">> :> "quit") @@ (<<"S">> :> "sub")

InitWith(registry) ==
    /\ listening = TRUE
    /\ acceptPc = "accept"
    /\ cmds = registry
    /\ peers = {}
    /\ infoConns = 0
    /\ infoCmds = 0
    /\ wg = 1
    /\ wpc = [c \in Conns |-> "none"]
    /\ sock = [c \in Conns |-> "open"]
    /\ clientClosed = [c \in Conns |-> FALSE]
    /\ sockIn = [c \in Conns |-> <<>>]
    /\ rbuf = [c \in Conns |-> <<>>]
    /\ cur = [c \in Conns |-> <<>>]
    /\ call = [c \in Conns |-> <<>>]
    /\ wbuf = [c \in Conns |-> <<>>]
    /\ out = [c \in Conns |-> <<>>]
    /\ closed = [c \in Conns |-> FALSE]
    /\ onDisconnect = [c \in Conns |-> <<>>]
    /\ ran = [c \in Conns |-> <<>>]
    /\ mLock = Free
    /\ mSrv = TRUE
    /\ subscribers = {}
    /\ ctxSub = [c \in Conns |-> NoSub]
    /\ kpc = [k \in Closers |-> "idle"]
    /\ sent = [c \in Conns |-> 0]
    /\ observed = [c \in Conns |-> FALSE]
    /\ log = [c \in Conns |-> <<>>]
    /\ sweptHanded = {}
    /\ swept = FALSE
    /\ srvCloses = 0
    /\ lastReg = <<>>
    /\ stringKeys = <<>>
    /\ expire = {}
    /\ keyVersion = [d \in DBs |-> [k \in Strs |-> 0]]
    /\ transaction = [c \in Conns |-> NoTx]
    /\ dirtyTransaction = [c \in Conns |-> FALSE]
    /\ watch = [c \in Conns |-> <<>>]
    /\ lastSet = <<>>
    /\ hit = [c \in Conns |-> {}]
    /\ last = <<>>
    /\ seq = 0
    /\ InitAux

\* A started Miniredis.
Init == InitWith(StartCmds)

\* ------------------------------------------------------------ connections
SockOpen(c) == sock[c] = "open"

\* Server.ServeConn, called with a connection of the caller's own (a net.Pipe
\* end) or by the accept loop: wg.Add(1) and a new goroutine.
ServeConn(c) ==
    /\ wpc[c] = "none"
    /\ \A k \in Closers : kpc[k] # "closed"
    /\ wg' = wg + 1
    /\ wpc' = [wpc EXCEPT ![c] = "spawned"]
    /\ UNCHANGED <<listening, acceptPc, cmds, peers, infoConns, infoCmds>>
    /\ UNCHANGED <<sock, clientClosed, sockIn, rbuf, cur, call, wbuf, out,
                   closed, onDisconnect, ran>>
    /\ UNCHANGED <<mVars, histVars>>
    /\ UNCHANGED <<kvVars, auxVars>>

\* Server.serve: l.Accept() returns a connection, which goes to ServeConn.
Accept(c) ==
    /\ acceptPc = "accept"
    /\ listening
    /\ ServeConn(c)

\* Server.serve: l.Accept() fails on the closed listener; the accept
\* goroutine returns and its deferred wg.Done() runs.
AcceptExit ==
    /\ acceptPc = "accept"
    /\ ~listening
    /\ acceptPc' = "done"
    /\ wg' = wg - 1
    /\ UNCHANGED <<listening, cmds, peers, infoConns, infoCmds>>
    /\ UNCHANGED <<connVars, mVars, histVars>>
    /\ UNCHANGED <<kvVars, auxVars>>

\* A worker that forgets the counter.
InfoConnsNotCounted(n) == n

\* The worker goroutine of ServeConn: s.infoConns++
InfoConnsAfterServe(n) == n + 1

\* The worker goroutine of ServeConn: s.peers[conn] = struct{}{} and the
\* counter, under s.mu.
WorkerRegister(c) ==
    /\ wpc[c] = "spawned"
    /\ peers' = peers \cup {c}
    /\ infoConns' = InfoConnsAfterServe(infoConns)
    /\ wpc' = [wpc EXCEPT ![c] = "read"]
    /\ UNCHANGED <<listening, acceptPc, cmds, infoCmds, wg>>
    /\ UNCHANGED <<sock, clientClosed, sockIn, rbuf, cur, call, wbuf, out,
                   closed, onDisconnect, ran>>
    /\ UNCHANGED <<mVars, histVars>>
    /\ UNCHANGED <<kvVars, auxVars>>

\* The client writes one more request frame, of at most `max`.
ClientSend(c, f, max) ==
    /\ wpc[c] # "none"
    /\ SockOpen(c)
    /\ ~clientClosed[c]
    /\ sent[c] < max
    /\ sockIn' = [sockIn EXCEPT ![c] = Append(@, f)]
    /\ sent' = [sent EXCEPT ![c] = @ + 1]
    /\ UNCHANGED <<srvVars, mVars>>
    /\ UNCHANGED <<wpc, sock, clientClosed, rbuf, cur, call, wbuf, out, closed,
                   onDisconnect, ran>>
    /\ UNCHANGED <<observed, log, sweptHanded, swept, srvCloses, lastReg>>
    /\ UNCHANGED <<kvVars, auxVars>>

\* The client closes its end of the connection.
ClientClose(c) ==
    /\ wpc[c] # "none"
    /\ ~clientClosed[c]
    /\ clientClosed' = [clientClosed EXCEPT ![c] = TRUE]
    /\ UNCHANGED <<srvVars, mVars, histVars>>
    /\ UNCHANGED <<wpc, sock, sockIn, rbuf, cur, call, wbuf, out, closed,
                   onDisconnect, ran>>
    /\ UNCHANGED <<kvVars, auxVars>>

\* readArray(r) on the bufio.Reader of servePeer.  The reader serves a frame
\* from its buffer when it holds one; otherwise it reads the connection, which
\* fails when the server side is closed, hands over some of the waiting
\* frames, reports EOF when the client is gone, and blocks when there is
\* nothing yet.  The result is <<outcome, frame, buffer, rest of the socket>>.
ReadArray(buf, in, open, gone) ==
    IF buf # <<>> THEN {<<"ok", Head(buf), Tail(buf), in>>}
    ELSE IF ~open THEN {<<"err", <<>>, buf, in>>}
    ELSE IF in # <<>>
        THEN {<<"ok", Head(in), SubSeq(in, 2, n), SubSeq(in, n + 1, Len(in))>> :
                n \in 1..Len(in)}
    ELSE IF gone THEN {<<"err", <<>>, buf, in>>}
    ELSE {}

\* servePeer: args, err := readArray(r); if err != nil { return }
ServePeerRead(c) ==
    /\ wpc[c] = "read"
    /\ \E r \in ReadArray(rbuf[c], sockIn[c], SockOpen(c), clientClosed[c]) :
        /\ wpc' = [wpc EXCEPT ![c] = IF r[1] = "ok" THEN "lookup" ELSE "disc"]
        /\ cur' = [cur EXCEPT ![c] = r[2]]
        /\ rbuf' = [rbuf EXCEPT ![c] = r[3]]
        /\ sockIn' = [sockIn EXCEPT ![c] = r[4]]
    /\ UNCHANGED <<srvVars, mVars, histVars>>
    /\ UNCHANGED <<sock, clientClosed, call, wbuf, out, closed, onDisconnect, ran>>
    /\ UNCHANGED <<kvVars, auxVars>>

\* -------------------------------------------------------------- dispatch
\* Server.dispatch up to the lookup: cmd, args := args[0], args[1:];
\* cmdUp := strings.ToUpper(cmd); cb, ok := s.cmds[cmdUp]; an unknown
\* command gets its error reply and dispatch returns.
Lookup(registry, frame) ==
    LET cmdUp == ToUpper(Head(frame))
    IN  IF cmdUp \in DOMAIN registry
        THEN <<registry[cmdUp], cmdUp, Tail(frame)>>
        ELSE <<>>

DispatchLookup(c) ==
    /\ wpc[c] = "lookup"
    /\ LET l == Lookup(cmds, cur[c])
       IN  /\ call' = [call EXCEPT ![c] = l]
           /\ IF l = <<>>
              THEN /\ wbuf' = [wbuf EXCEPT ![c] = Append(@, "-ERR")]
                   /\ log' = [log EXCEPT ![c] = Append(@, <<>>)]
                   /\ wpc' = [wpc EXCEPT ![c] = "flush"]
              ELSE /\ UNCHANGED <<wbuf, log>>
                   /\ wpc' = [wpc EXCEPT ![c] = "count"]
    /\ UNCHANGED <<srvVars, mVars>>
    /\ UNCHANGED <<sock, clientClosed, sockIn, rbuf, cur, out, closed,
                   onDisconnect, ran>>
    /\ UNCHANGED <<sent, observed, sweptHanded, swept, srvCloses, lastReg>>
    /\ UNCHANGED <<kvVars, auxVars>>

\* A dispatch that forgets the counter.
InfoCmdsNotCounted(n) == n

\* Server.dispatch: s.mu.Lock(); s.infoCmds++; s.mu.Unlock()
InfoCmdsAfterDispatch(n) == n + 1

DispatchCount(c) ==
    /\ wpc[c] = "count"
    /\ infoCmds' = InfoCmdsAfterDispatch(infoCmds)
    /\ wpc' = [wpc EXCEPT ![c] = "call"]
    /\ UNCHANGED <<listening, acceptPc, cmds, peers, infoConns, wg>>
    /\ UNCHANGED <<sock, clientClosed, sockIn, rbuf, cur, call, wbuf, out,
                   closed, onDisconnect, ran>>
    /\ UNCHANGED <<mVars, histVars>>
    /\ UNCHANGED <<kvVars, auxVars>>

\* A Peer.Close that closes the connection at once.
PeerCloseEager(c) ==
    /\ closed' = [closed EXCEPT ![c] = TRUE]
    /\ sock' = [sock EXCEPT ![c] = IF @ = "open" THEN "deferred" ELSE @]

\* Peer.Close: c.closed = true.  The connection itself is left alone.
PeerClose(c) ==
    /\ closed' = [closed EXCEPT ![c] = TRUE]
    /\ sock' = sock

\* The subscriber subscribedState makes for a peer: a fresh one for every
\* callback it registers.
NewSub(c) == <<c, Len(onDisconnect[c]) + 1>>

\* Miniredis.subscribedState: the peer's subscriber, made, registered and
\* given its OnDisconnect callback when the peer has none.
SubscribedState(c) ==
    IF ctxSub[c] # NoSub
    THEN UNCHANGED <<subscribers, onDisconnect, ctxSub>>
    ELSE /\ subscribers' = subscribers \cup {NewSub(c)}
         /\ onDisconnect' = [onDisconnect EXCEPT ![c] = Append(@, NewSub(c))]
         /\ ctxSub' = [ctxSub EXCEPT ![c] = NewSub(c)]

\* Server.dispatch: cb(c, cmdUp, args), for the three kinds of handler.
\* Each writes one reply item; "quit" also asks for the connection to be
\* closed, "sub" enters subscriber mode under the Miniredis mutex.
HandlerPlain(c) ==
    /\ call[c][1] = "plain"
    /\ UNCHANGED <<closed, sock, subscribers, onDisconnect, ctxSub>>

HandlerQuit(c) ==
    /\ call[c][1] = "quit"
    /\ PeerClose(c)
    /\ UNCHANGED <<subscribers, onDisconnect, ctxSub>>

HandlerSub(c) ==
    /\ call[c][1] = "sub"
    /\ mLock = Free
    /\ SubscribedState(c)
    /\ UNCHANGED <<closed, sock>>

DispatchCall(c) ==
    /\ wpc[c] = "call"
    /\ HandlerPlain(c) \/ HandlerQuit(c) \/ HandlerSub(c)
    /\ wbuf' = [wbuf EXCEPT ![c] = Append(@, "+OK")]
    /\ log' = [log EXCEPT ![c] = Append(@, call[c])]
    /\ wpc' = [wpc EXCEPT ![c] = "flush"]
    /\ UNCHANGED <<srvVars, mLock, mSrv, kpc>>
    /\ UNCHANGED <<clientClosed, sockIn, rbuf, cur, call, out, ran>>
    /\ UNCHANGED <<sent, observed, sweptHanded, swept, srvCloses, lastReg>>
    /\ UNCHANGED <<kvVars, auxVars>>

\* servePeer: peer.Flush().  The buffered reply items reach the client when
\* the connection is open at both ends and are lost otherwise.
Flushed(c) == IF SockOpen(c) /\ ~clientClosed[c] THEN out[c] \o wbuf[c] ELSE out[c]

ServePeerFlush(c) ==
    /\ wpc[c] = "flush"
    /\ out' = [out EXCEPT ![c] = Flushed(c)]
    /\ wbuf' = [wbuf EXCEPT ![c] = <<>>]
    /\ wpc' = [wpc EXCEPT ![c] = "check"]
    /\ UNCHANGED <<srvVars, mVars, histVars>>
    /\ UNCHANGED <<sock, clientClosed, sockIn, rbuf, cur, call, closed,
                   onDisconnect, ran>>
    /\ UNCHANGED <<kvVars, auxVars>>

\* net.Conn.Close by `who`: closing a closed connection changes nothing.
CloseConn(s, who) == IF s = "open" THEN who ELSE s

\* servePeer: closed := peer.closed (under s.mu); if closed { c.Close() };
\* and the for loop goes round again.
ServePeerCheck(c) ==
    /\ wpc[c] = "check"
    /\ IF closed[c]
       THEN /\ sock' = [sock EXCEPT ![c] = CloseConn(@, "deferred")]
            /\ observed' = [observed EXCEPT ![c] = TRUE]
       ELSE UNCHANGED <<sock, observed>>
    /\ wpc' = [wpc EXCEPT ![c] = "read"]
    /\ UNCHANGED <<srvVars, mVars>>
    /\ UNCHANGED <<clientClosed, sockIn, rbuf, cur, call, wbuf, out, closed,
                   onDisconnect, ran>>
    /\ UNCHANGED <<sent, log, sweptHanded, swept, srvCloses, lastReg>>
    /\ UNCHANGED <<kvVars, auxVars>>

\* ------------------------------------------------------------ disconnect
\* Miniredis.removeSubscriber: delete(m.subscribers, s)
RemoveSubscriber(subs, s) == subs \ {s}

\* A removeSubscriber that closes the subscriber whether or not it was
\* registered.
SubscriberClosedAlways(subs, cl, s) ==
    (s :> (IF s \in DOMAIN cl THEN cl[s] + 1 ELSE 1)) @@ cl

\* Miniredis.removeSubscriber: if ok { s.Close() }, for a subscriber that
\* was in m.subscribers.
SubscriberClosed(subs, cl, s) ==
    IF s \in subs
    THEN (s :> (IF s \in DOMAIN cl THEN cl[s] + 1 ELSE 1)) @@ cl
    ELSE cl

\* servePeer's deferred function runs the next callback of peer.onDisconnect;
\* the callback subscribedState registered locks the Miniredis mutex and
\* removes the subscriber.
ServePeerDisconnect(c) ==
    /\ wpc[c] = "disc"
    /\ Len(ran[c]) < Len(onDisconnect[c])
    /\ mLock = Free
    /\ LET s == onDisconnect[c][Len(ran[c]) + 1]
       IN  /\ subscribers' = RemoveSubscriber(subscribers, s)
           /\ subCloses' = SubscriberClosed(subscribers, subCloses, s)
           /\ ran' = [ran EXCEPT ![c] = Append(@, s)]
    /\ UNCHANGED <<srvVars, histVars>>
    /\ UNCHANGED <<mLock, mSrv, ctxSub, kpc>>
    /\ UNCHANGED <<wpc, sock, clientClosed, sockIn, rbuf, cur, call, wbuf, out,
                   closed, onDisconnect>>
    /\ UNCHANGED <<kvVars, typeVars, authVars, panicVars, dbVars, writeVars, txVars, lockVars, raceVars>>
    /\ UNCHANGED delivered

\* A goroutine that removes the peer without waiting for the callbacks.
WorkerUnregisterEarly(c) ==
    /\ wpc[c] = "disc"
    /\ peers' = peers \ {c}
    /\ wpc' = [wpc EXCEPT ![c] = "exit"]
    /\ UNCHANGED <<listening, acceptPc, cmds, infoConns, infoCmds, wg>>
    /\ UNCHANGED <<sock, clientClosed, sockIn, rbuf, cur, call, wbuf, out,
                   closed, onDisconnect, ran>>
    /\ UNCHANGED <<mVars, histVars>>
    /\ UNCHANGED <<kvVars, auxVars>>

\* ServeConn's goroutine after servePeer has returned:
\* s.mu.Lock(); delete(s.peers, conn); s.mu.Unlock()
WorkerUnregister(c) ==
    /\ wpc[c] = "disc"
    /\ Len(ran[c]) = Len(onDisconnect[c])
    /\ peers' = peers \ {c}
    /\ wpc' = [wpc EXCEPT ![c] = "exit"]
    /\ UNCHANGED <<listening, acceptPc, cmds, infoConns, infoCmds, wg>>
    /\ UNCHANGED <<sock, clientClosed, sockIn, rbuf, cur, call, wbuf, out,
                   closed, onDisconnect, ran>>
    /\ UNCHANGED <<mVars, histVars>>
    /\ UNCHANGED <<kvVars, auxVars>>

\* ServeConn's goroutine returns: defer conn.Close(), then defer s.wg.Done()
WorkerExit(c) ==
    /\ wpc[c] = "exit"
    /\ sock' = [sock EXCEPT ![c] = CloseConn(@, "exit")]
    /\ wg' = wg - 1
    /\ wpc' = [wpc EXCEPT ![c] = "done"]
    /\ UNCHANGED <<listening, acceptPc, cmds, peers, infoConns, infoCmds>>
    /\ UNCHANGED <<clientClosed, sockIn, rbuf, cur, call, wbuf, out, closed,
                   onDisconnect, ran>>
    /\ UNCHANGED <<mVars, histVars>>
    /\ UNCHANGED <<kvVars, auxVars>>

\* ------------------------------------------------------------------ Close
\* A Miniredis.Close that keeps the mutex locked across srv.Close().
LockHeldAcrossClose(k) == Closer(k)

\* Miniredis.Close unlocks the mutex before it calls srv.Close().
LockAfterDetach(k) == Free

\* Miniredis.Close up to srv.Close(): with m.srv == nil it unlocks and
\* returns; otherwise it takes m.srv, sets it to nil and unlocks.
MiniredisClose(k) ==
    /\ kpc[k] = "idle"
    /\ mLock = Free
    /\ IF mSrv
       THEN /\ mSrv' = FALSE
            /\ mLock' = LockAfterDetach(k)
            /\ kpc' = [kpc EXCEPT ![k] = "srvClose"]
       ELSE /\ kpc' = [kpc EXCEPT ![k] = "noop"]
            /\ UNCHANGED <<mSrv, mLock>>
    /\ UNCHANGED <<srvVars, connVars, histVars>>
    /\ UNCHANGED <<subscribers, ctxSub>>
    /\ UNCHANGED <<kvVars, auxVars>>

\* The connections Server.Close closes: for c := range s.peers { c.Close() }
SweepTargets == peers

\* Server.Close up to s.wg.Wait(): under s.mu, the listener is closed and
\* set to nil and every connection in s.peers is closed.
ServerCloseSweep(k) ==
    /\ kpc[k] = "srvClose"
    /\ listening' = FALSE
    /\ sock' = [c \in Conns |->
                  IF c \in SweepTargets THEN CloseConn(sock[c], "server") ELSE sock[c]]
    /\ kpc' = [kpc EXCEPT ![k] = "wait"]
    /\ swept' = TRUE
    /\ sweptHanded' = {c \in Conns : wpc[c] # "none"}
    /\ srvCloses' = srvCloses + 1
    /\ UNCHANGED <<acceptPc, cmds, peers, infoConns, infoCmds, wg>>
    /\ UNCHANGED <<wpc, clientClosed, sockIn, rbuf, cur, call, wbuf, out, closed,
                   onDisconnect, ran>>
    /\ UNCHANGED <<mLock, mSrv, subscribers, ctxSub>>
    /\ UNCHANGED <<sent, observed, log, lastReg>>
    /\ UNCHANGED <<kvVars, auxVars>>

\* Server.Close: s.wg.Wait() returns, and so do Server.Close and
\* Miniredis.Close (which gives up the mutex if it still holds it).
ServerCloseWait(k) ==
    /\ kpc[k] = "wait"
    /\ wg = 0
    /\ kpc' = [kpc EXCEPT ![k] = "closed"]
    /\ mLock' = IF mLock = Closer(k) THEN Free ELSE mLock
    /\ UNCHANGED <<srvVars, connVars, histVars>>
    /\ UNCHANGED <<mSrv, subscribers, ctxSub>>
    /\ UNCHANGED <<kvVars, auxVars>>

\* --------------------------------------------------------------- Register
\* A Register that stores the handler whether or not the name is taken.
RegisterOverwrite(registry, cmd, f) ==
    LET up == ToUpper(cmd)
    IN  <<(up :> f) @@ registry, up \in DOMAIN registry>>

\* Server.Register: cmd = strings.ToUpper(cmd); a name that is taken is an
\* error; otherwise s.cmds[cmd] = f.  The result is <<s.cmds, error>>.
Register(registry, cmd, f) ==
    LET up == ToUpper(cmd)
    IN  IF up \in DOMAIN registry
        THEN <<registry, TRUE>>
        ELSE <<(up :> f) @@ registry, FALSE>>

ServerRegister(cmd, f) ==
    /\ LET r == Register(cmds, cmd, f)
       IN  /\ cmds' = r[1]
           /\ lastReg' = <<cmd, f, r[2]>>
    /\ UNCHANGED <<listening, acceptPc, peers, infoConns, infoCmds, wg>>
    /\ UNCHANGED <<connVars, mVars>>
    /\ UNCHANGED <<sent, observed, log, sweptHanded, swept, srvCloses>>
    /\ UNCHANGED <<kvVars, auxVars>>

\* ------------------------------------------------------------------- Next
\* The steps of the goroutines the program starts itself.
WorkerStep(c) ==
    \/ WorkerRegister(c)
    \/ ServePeerRead(c)
    \/ DispatchLookup(c)
    \/ DispatchCount(c)
    \/ DispatchCall(c)
    \/ ServePeerFlush(c)
    \/ ServePeerCheck(c)
    \/ ServePeerDisconnect(c)
    \/ WorkerUnregister(c)
    \/ WorkerExit(c)

\* A started Miniredis whose clients subscribe, disconnect and call Close.
SubFrames == {<<<<"s">>>>}

Next ==
    \/ \E c \in Conns : ServeConn(c)
    \/ \E c \in Conns : Accept(c)
    \/ AcceptExit
    \/ \E c \in Conns, f \in SubFrames : ClientSend(c, f, MaxReqs)
    \/ \E c \in Conns : ClientClose(c)
    \/ \E c \in Conns : WorkerStep(c)
    \/ \E k \in Closers : MiniredisClose(k)
    \/ \E k \in Closers : ServerCloseSweep(k)
    \/ \E k \in Closers : ServerCloseWait(k)

Spec == Init /\ [][Next]_vars

\* The same under the scheduling of the Go runtime: a goroutine that can take
\* a step takes one.  Clients and callers are not obliged to do anything.
Fairness ==
    /\ \A c \in Conns : WF_vars(WorkerStep(c))
    /\ WF_vars(AcceptExit)
    /\ \A k \in Closers : WF_vars(ServerCloseSweep(k) \/ ServerCloseWait(k))

FairSpec == Spec /\ Fairness

\* The same with a single caller of Close.
NextOneClose ==
    \/ \E c \in Conns : ServeConn(c)
    \/ \E c \in Conns : Accept(c)
    \/ AcceptExit
    \/ \E c \in Conns, f \in SubFrames : ClientSend(c, f, MaxReqs)
    \/ \E c \in Conns : ClientClose(c)
    \/ \E c \in Conns : WorkerStep(c)
    \/ MiniredisClose(1)
    \/ ServerCloseSweep(1)
    \/ ServerCloseWait(1)

FairSpecOneClose == Init /\ [][NextOneClose]_vars /\ Fairness

\* One client that pipelines QUIT and SUBSCRIBE requests, in lower case,
\* while the server may be closed under it.
PipeConns == {c \in Conns : c = MaxConns}
PipeFrames == {<<<<"q">>>>, <<<<"s">>>>}

NextPipe ==
    \/ \E c \in PipeConns : ServeConn(c)
    \/ AcceptExit
    \/ \E c \in PipeConns, f \in PipeFrames : ClientSend(c, f, MaxPipeline)
    \/ \E c \in PipeConns : ClientClose(c)
    \/ \E c \in PipeConns : WorkerStep(c)
    \/ MiniredisClose(1)
    \/ ServerCloseSweep(1)
    \/ ServerCloseWait(1)

SpecPipe == Init /\ [][NextPipe]_vars

\* The pipelining client under a scheduler that lets every goroutine run.
FairSpecPipe == SpecPipe /\ Fairness

\* A server fresh from NewServer: commands are registered while the workers
\* dispatch.
InitDispatch == InitWith(<<>>)

DispatchNames == SeqsUpTo(MaxNameLen, {"q", "Q"}) \ {<<>>}
DispatchFrames == {f \in Frames : Head(f) \in DispatchNames}
DispatchHandlers == Handlers

NextDispatch ==
    \/ \E c \in Conns : ServeConn(c)
    \/ \E n \in DispatchNames, f \in DispatchHandlers : ServerRegister(n, f)
    \/ \E c \in Conns, f \in DispatchFrames : ClientSend(c, f, MaxReqs)
    \/ \E c \in Conns : ClientClose(c)
    \/ \E c \in Conns : WorkerStep(c)

SpecDispatch == InitDispatch /\ [][NextDispatch]_vars

\* ------------------------------------------------------ string commands
\* A SET that keeps the value a key already has.
SetHandlerFirstWins(args, sk, ex) ==
    IF Len(args) < 2 THEN <<<<"-", "Usage error">>, sk, ex>>
    ELSE IF Len(args) > 2 THEN <<<<"-", "unimplemented">>, sk, ex>>
    ELSE <<<<"+OK">>, sk @@ (args[1] :> args[2]), ex \ {args[1]}>>

\* The SET handler of commandsString: fewer than two arguments are a usage
\* error, more than two are unimplemented; otherwise, under the mutex, the
\* value is stored and the key's expiry cleared.  <<reply, m.stringKeys,
\* m.expire>>.
SetHandler(args, sk, ex) ==
    IF Len(args) < 2 THEN <<<<"-", "Usage error">>, sk, ex>>
    ELSE IF Len(args) > 2 THEN <<<<"-", "unimplemented">>, sk, ex>>
    ELSE <<<<"+OK">>, (args[1] :> args[2]) @@ sk, ex \ {args[1]}>>

\* The GET handler of commandsString: the value of r.Args[0] as a bulk
\* string, or the null bulk string when the key is missing.
GetHandler(args, sk) ==
    IF args[1] \in DOMAIN sk THEN <<"$", sk[args[1]]>> ELSE <<"$-1">>

\* connCtx.selectedDB: its zero value, nothing here selects another.
SelectedDB(c) == 0

\* A client sends SET with `args`.  The handler runs at once: it knows
\* nothing of transactions and versions.
CmdSet(c, args) ==
    /\ Len(args) = 2 => mLock = Free
    /\ LET r == SetHandler(args, stringKeys, expire)
           ok == r[1] = <<"+OK">>
       IN  /\ stringKeys' = r[2]
           /\ expire' = r[3]
           /\ lastSet' = IF ok THEN (args[1] :> <<args[2], c>>) @@ lastSet ELSE lastSet
           /\ hit' = [d \in Conns |->
                        IF ok /\ d # c
                        THEN hit[d] \cup {dk \in DOMAIN watch[d] : dk[2] = args[1]}
                        ELSE hit[d]]
           /\ last' = <<c, "SET", args, r[1], {}>>
    /\ seq' = 1 - seq
    /\ UNCHANGED <<keyVersion, transaction, dirtyTransaction, watch>>
    /\ UNCHANGED <<srvVars, connVars, mVars, histVars, auxVars>>

\* A client sends GET with `args`.
CmdGet(c, args) ==
    /\ mLock = Free
    /\ last' = <<c, "GET", args, GetHandler(args, stringKeys), {}>>
    /\ seq' = 1 - seq
    /\ UNCHANGED <<stringKeys, expire, keyVersion, transaction, dirtyTransaction,
                   watch, lastSet, hit>>
    /\ UNCHANGED <<srvVars, connVars, mVars, histVars, auxVars>>

\* ----------------------------------------------------------- transactions
\* getCtx: the peer's context, made with its zero values when the peer has
\* none.
GetCtx(c) ==
    /\ hasCtx' = [hasCtx EXCEPT ![c] = TRUE]
    /\ UNCHANGED <<password, authenticated, apc, authPass, rpc, rpw>>

\* A MULTI that leaves the dirty flag as it finds it.
StartTxKeepsDirty(c) ==
    /\ transaction' = [transaction EXCEPT ![c] = [nil |-> FALSE, cmds |-> <<>>]]
    /\ dirtyTransaction' = dirtyTransaction

\* inTx: ctx.transaction != nil
InTx(c) == ~transaction[c].nil

\* startTx: an empty transaction and a clean dirty flag.
StartTx(c) ==
    /\ transaction' = [transaction EXCEPT ![c] = [nil |-> FALSE, cmds |-> <<>>]]
    /\ dirtyTransaction' = [dirtyTransaction EXCEPT ![c] = FALSE]

\* unwatch: ctx.watch = nil
Unwatch(w, c) == [w EXCEPT ![c] = <<>>]

\* stopTx: ctx.transaction = nil; unwatch(ctx)
StopTx(c) ==
    /\ transaction' = [transaction EXCEPT ![c] = NoTx]
    /\ watch' = Unwatch(watch, c)

\* watch: ctx.watch[dbKey{db.id, key}] = db.keyVersion[key], 0 for a key
\* that has no version.
Watch(w, c, db, key) ==
    [w EXCEPT ![c] = (<<db, key>> :> keyVersion[db][key]) @@ @]

\* The watched keys of c whose version is no longer the recorded one.
WatchChanged(c) ==
    {dk \in DOMAIN watch[c] : keyVersion[dk[1]][dk[2]] # watch[c][dk]}

\* A client sends WATCH key: refused inside MULTI, otherwise the key's
\* version is recorded under the selected database.
CmdWatch(c, key) ==
    /\ mLock = Free
    /\ IF InTx(c)
       THEN /\ last' = <<c, "WATCH", <<key>>, <<"-", "WATCH in MULTI">>, {}>>
            /\ UNCHANGED <<watch, hit>>
       ELSE /\ watch' = Watch(watch, c, SelectedDB(c), key)
            /\ hit' = [hit EXCEPT ![c] = @ \ {<<SelectedDB(c), key>>}]
            /\ last' = <<c, "WATCH", <<key>>, <<"+OK">>, {}>>
    /\ seq' = 1 - seq
    /\ UNCHANGED <<stringKeys, expire, keyVersion, transaction, dirtyTransaction,
                   lastSet>>
    /\ GetCtx(c)
    /\ UNCHANGED txVars
    /\ UNCHANGED <<srvVars, connVars, mVars, histVars>>
    /\ UNCHANGED <<typeVars, panicVars, dbVars, writeVars, subVars, lockVars, raceVars>>

\* A client sends MULTI: refused when nested, otherwise startTx.
CmdMulti(c) ==
    /\ mLock = Free
    /\ IF InTx(c)
       THEN /\ last' = <<c, "MULTI", <<>>, <<"-", "MULTI calls can not be nested">>, {}>>
            /\ UNCHANGED <<transaction, dirtyTransaction>>
       ELSE /\ StartTx(c)
            /\ last' = <<c, "MULTI", <<>>, <<"+OK">>, {}>>
    /\ seq' = 1 - seq
    /\ UNCHANGED <<stringKeys, expire, keyVersion, watch, lastSet, hit>>
    /\ GetCtx(c)
    /\ dirtiedSince' = [dirtiedSince EXCEPT ![c] = IF InTx(c) THEN @ ELSE FALSE]
    /\ dirtyAtMulti' = [dirtyAtMulti EXCEPT ![c] = IF InTx(c) THEN @ ELSE dirtyTransaction[c]]
    /\ UNCHANGED <<srvVars, connVars, mVars, histVars>>
    /\ UNCHANGED <<typeVars, panicVars, dbVars, writeVars, subVars, lockVars, raceVars>>

\* The reply of EXEC: an error outside MULTI, EXECABORT for a dirty
\* transaction, the null array when a watched key has another version than
\* the recorded one, otherwise the array of the queued commands' replies.
ExecReply(c) ==
    IF ~InTx(c) THEN <<"-", "EXEC without MULTI">>
    ELSE IF dirtyTransaction[c] THEN <<"-", "EXECABORT">>
    ELSE IF WatchChanged(c) # {} THEN <<"*-1">>
    ELSE <<"*", Len(transaction[c].cmds)>>

\* A client sends EXEC.
CmdExec(c) ==
    /\ mLock = Free
    /\ last' = <<c, "EXEC", <<>>, ExecReply(c), hit[c]>>
    /\ IF InTx(c)
       THEN /\ StopTx(c)
            /\ hit' = [hit EXCEPT ![c] = {}]
       ELSE UNCHANGED <<transaction, watch, hit>>
    /\ seq' = 1 - seq
    /\ UNCHANGED <<stringKeys, expire, keyVersion, dirtyTransaction, lastSet>>
    /\ GetCtx(c)
    /\ UNCHANGED txVars
    /\ UNCHANGED <<srvVars, connVars, mVars, histVars>>
    /\ UNCHANGED <<typeVars, panicVars, dbVars, writeVars, subVars, lockVars, raceVars>>

\* The arguments the clients give SET: too few, two, and too many.
SetArgs == {<<"a">>, <<"a", "b", "NX">>} \cup {<<k, v>> : k \in Strs, v \in Strs}

\* setDirty, called by a handler that reports an error of a command: nothing
\* for a peer without a context, otherwise the dirty flag is set.
SetDirty(c) ==
    /\ mLock = Free
    /\ IF ~hasCtx[c]
       THEN UNCHANGED dirtyTransaction
       ELSE dirtyTransaction' = [dirtyTransaction EXCEPT ![c] = TRUE]
    /\ dirtiedSince' = [dirtiedSince EXCEPT ![c] = TRUE]
    /\ UNCHANGED dirtyAtMulti
    /\ last' = <<c, "setDirty", <<>>, <<>>, {}>>
    /\ seq' = 1 - seq
    /\ UNCHANGED <<stringKeys, expire, keyVersion, transaction, watch, lastSet, hit>>
    /\ UNCHANGED <<srvVars, connVars, mVars, histVars>>
    /\ UNCHANGED <<typeVars, authVars, panicVars, dbVars, writeVars, subVars, lockVars, raceVars>>

NextKV ==
    \/ \E c \in Conns, args \in SetArgs : CmdSet(c, args)
    \/ \E c \in Conns, k \in Strs : CmdGet(c, <<k>>)
    \/ \E c \in Conns, k \in Strs : CmdWatch(c, k)
    \/ \E c \in Conns : CmdMulti(c)
    \/ \E c \in Conns : CmdExec(c)

SpecKV == Init /\ [][NextKV]_vars

\* ------------------------------------------------------------ typed maps
\* The typed value maps other than the strings: newRedisDB makes them empty
\* and no command of the program writes them.
hashKeys == <<>>
listKeys == <<>>
setKeys == <<>>
sortedsetKeys == <<>>

\* The types of the typed value maps that hold key k.
OwningTypes(k) ==
    {t \in {"string", "hash", "list", "set", "zset"} :
        \/ t = "string" /\ k \in DOMAIN stringKeys
        \/ t = "hash" /\ k \in DOMAIN hashKeys
        \/ t = "list" /\ k \in DOMAIN listKeys
        \/ t = "set" /\ k \in DOMAIN setKeys
        \/ t = "zset" /\ k \in DOMAIN sortedsetKeys}

\* --------------------------------------------------------- authentication
\* The passwords RequireAuth is called with; "" disables authentication.
Passwords == {"", "pw"}

AuthHolder(c) == <<"auth", c>>        \* handleAuth on peer c holds the mutex
RequireHolder == <<"require", 0>>     \* RequireAuth holds the mutex

\* A Lock that does not wait for the mutex.
MLockNoWait(who) == mLock' = who

\* m.Lock() by `who`: waits until the mutex is free.
MLock(who) == mLock = Free /\ mLock' = who

\* handleAuth: m.Lock()
HandleAuthLock(c) ==
    /\ apc[c] = "idle"
    /\ Len(wbuf[c]) < MaxAuthChecks
    /\ MLock(AuthHolder(c))
    /\ apc' = [apc EXCEPT ![c] = "check"]
    /\ UNCHANGED <<password, authenticated, hasCtx, authPass, rpc, rpw>>
    /\ UNCHANGED <<srvVars, connVars, mSrv, subscribers, ctxSub, kpc, histVars,
                   kvVars, typeVars, panicVars, dbVars, writeVars, subVars, txVars, lockVars, raceVars>>

\* handleAuth: true without a password; otherwise getCtx(c), which makes the
\* peer's context when it has none, and the NOAUTH error and false for a
\* peer that is not authenticated.
HandleAuthCheck(c) ==
    /\ apc[c] = "check"
    /\ IF password = ""
       THEN /\ authPass' = [authPass EXCEPT ![c] = TRUE]
            /\ UNCHANGED <<hasCtx, wbuf>>
       ELSE /\ hasCtx' = [hasCtx EXCEPT ![c] = TRUE]
            /\ IF ~authenticated[c]
               THEN /\ wbuf' = [wbuf EXCEPT ![c] = Append(@, "-NOAUTH")]
                    /\ authPass' = [authPass EXCEPT ![c] = FALSE]
               ELSE /\ authPass' = [authPass EXCEPT ![c] = TRUE]
                    /\ UNCHANGED wbuf
    /\ apc' = [apc EXCEPT ![c] = "unlock"]
    /\ UNCHANGED <<password, authenticated, rpc, rpw>>
    /\ UNCHANGED <<srvVars, mVars, histVars, kvVars, typeVars, panicVars, dbVars, writeVars, subVars, txVars, lockVars, raceVars>>
    /\ UNCHANGED <<wpc, sock, clientClosed, sockIn, rbuf, cur, call, out,
                   closed, onDisconnect, ran>>

\* handleAuth: the deferred m.Unlock(), and the return.
HandleAuthUnlock(c) ==
    /\ apc[c] = "unlock"
    /\ mLock' = Free
    /\ apc' = [apc EXCEPT ![c] = "idle"]
    /\ UNCHANGED <<password, authenticated, hasCtx, authPass, rpc, rpw>>
    /\ UNCHANGED <<srvVars, connVars, mSrv, subscribers, ctxSub, kpc, histVars,
                   kvVars, typeVars, panicVars, dbVars, writeVars, subVars, txVars, lockVars, raceVars>>

\* RequireAuth(pw): m.Lock()
RequireAuthLock(pw) ==
    /\ rpc = "idle"
    /\ MLock(RequireHolder)
    /\ rpc' = "set"
    /\ rpw' = pw
    /\ UNCHANGED <<password, authenticated, hasCtx, apc, authPass>>
    /\ UNCHANGED <<srvVars, connVars, mSrv, subscribers, ctxSub, kpc, histVars,
                   kvVars, typeVars, panicVars, dbVars, writeVars, subVars, txVars, lockVars, raceVars>>

\* RequireAuth: m.password = pw
RequireAuthSet ==
    /\ rpc = "set"
    /\ password' = rpw
    /\ rpc' = "unlock"
    /\ UNCHANGED <<authenticated, hasCtx, apc, authPass, rpw>>
    /\ UNCHANGED <<srvVars, connVars, mVars, histVars, kvVars, typeVars, panicVars, dbVars, writeVars, subVars, txVars, lockVars, raceVars>>

\* RequireAuth: the deferred m.Unlock()
RequireAuthUnlock ==
    /\ rpc = "unlock"
    /\ mLock' = Free
    /\ rpc' = "idle"
    /\ UNCHANGED <<password, authenticated, hasCtx, apc, authPass, rpw>>
    /\ UNCHANGED <<srvVars, connVars, mSrv, subscribers, ctxSub, kpc, histVars,
                   kvVars, typeVars, panicVars, dbVars, writeVars, subVars, txVars, lockVars, raceVars>>

\* setAuthenticated: getCtx(c).authenticated = true, as the AUTH command
\* does, under the mutex, when it is given the required password.
SetAuthenticated(c, pw) ==
    /\ mLock = Free
    /\ password # ""
    /\ pw = password
    /\ authenticated' = [authenticated EXCEPT ![c] = TRUE]
    /\ hasCtx' = [hasCtx EXCEPT ![c] = TRUE]
    /\ UNCHANGED <<password, apc, authPass, rpc, rpw>>
    /\ UNCHANGED <<srvVars, connVars, mVars, histVars, kvVars, typeVars, panicVars, dbVars, writeVars, subVars, txVars, lockVars, raceVars>>

NextAuth ==
    \/ \E c \in Conns : HandleAuthLock(c)
    \/ \E c \in Conns : HandleAuthCheck(c)
    \/ \E c \in Conns : HandleAuthUnlock(c)
    \/ \E pw \in Passwords : RequireAuthLock(pw)
    \/ RequireAuthSet
    \/ RequireAuthUnlock
    \/ \E c \in Conns, pw \in Passwords : SetAuthenticated(c, pw)

SpecAuth == Init /\ [][NextAuth]_vars

\* ------------------------------------------------------- a handler panics
\* The GET handler called by dispatch: with an argument it replies the
\* value or the null bulk string.
DispatchGet(c) ==
    /\ wpc[c] = "call"
    /\ call[c][1] = "get"
    /\ call[c][3] # <<>>
    /\ mLock = Free
    /\ wbuf' = [wbuf EXCEPT ![c] =
                  Append(@, IF GetHandler(call[c][3], stringKeys) = <<"$-1">>
                            THEN "$-1" ELSE "$")]
    /\ log' = [log EXCEPT ![c] = Append(@, call[c])]
    /\ wpc' = [wpc EXCEPT ![c] = "flush"]
    /\ UNCHANGED <<srvVars, mVars>>
    /\ UNCHANGED <<sock, clientClosed, sockIn, rbuf, cur, call, out, closed,
                   onDisconnect, ran>>
    /\ UNCHANGED <<sent, observed, sweptHanded, swept, srvCloses, lastReg>>
    /\ UNCHANGED <<kvVars, typeVars, authVars, panicVars, dbVars, writeVars, subVars, txVars, lockVars, raceVars>>

\* The GET handler called without an argument: r.Args[0] panics with an
\* index out of range.  Neither the handler, dispatch, servePeer nor the
\* goroutine of ServeConn recovers, so the panic ends the process.
DispatchPanic(c) ==
    /\ wpc[c] = "call"
    /\ call[c][1] = "get"
    /\ call[c][3] = <<>>
    /\ alive' = FALSE
    /\ wpc' = [wpc EXCEPT ![c] = "panic"]
    /\ UNCHANGED <<srvVars, mVars, histVars>>
    /\ UNCHANGED <<sock, clientClosed, sockIn, rbuf, cur, call, wbuf, out,
                   closed, onDisconnect, ran>>
    /\ UNCHANGED <<kvVars, typeVars, authVars, dbVars, writeVars, subVars, txVars, lockVars, raceVars>>

\* A started Miniredis with the GET command.
PanicCmds == (<<"G">> :> "get") @@ StartCmds
InitPanic == InitWith(PanicCmds)
PanicFrames == {<<<<"g">>>>, <<<<"g">>, "a">>, <<<<"s">>>>}

\* Nothing runs once the process has ended.
NextPanic ==
    \/ alive /\ \E c \in Conns : Accept(c)
    \/ alive /\ \E c \in Conns, f \in PanicFrames : ClientSend(c, f, MaxReqs)
    \/ alive /\ \E c \in Conns : ClientClose(c)
    \/ alive /\ \E c \in Conns : WorkerStep(c)
    \/ alive /\ \E c \in Conns : DispatchGet(c)
    \/ alive /\ \E c \in Conns : DispatchPanic(c)

SpecPanic == InitPanic /\ [][NextPanic]_vars

\* ------------------------------------------------------------- databases
DbIds == 0..MaxDbId

\* newRedisDB(i, m), stored at m.dbs[i]: a RedisDB nobody points to yet.
NewDb(ids) == Cardinality(DOMAIN ids) + 1

\* Miniredis.db(i) on the state st = [dbs, id]: the RedisDB m.dbs[i]; when
\* there is none, a new one with id i is stored there.  <<state, RedisDB>>.
Db(st, i) ==
    IF i \in DOMAIN st.dbs
    THEN <<st, st.dbs[i]>>
    ELSE <<[dbs |-> (i :> NewDb(st.id)) @@ st.dbs,
            id |-> (NewDb(st.id) :> i) @@ st.id],
           NewDb(st.id)>>

\* A swap that leaves the id fields as they are.
SwapIdsKept(ids, db1, db2, i, j) == ids

\* swapDB: db1.id = j; db2.id = i
SwapIds(ids, db1, db2, i, j) ==
    [o \in DOMAIN ids |-> IF o = db2 THEN i ELSE IF o = db1 THEN j ELSE ids[o]]

\* Miniredis.swapDB(i, j) on the state st: <<state, the state after the two
\* lookups>>.
SwapDBState(st, i, j) ==
    LET r1 == Db(st, i)
        r2 == Db(r1[1], j)
        db1 == r1[2]
        db2 == r2[2]
        s2 == r2[1]
    IN  <<[dbs |-> (j :> db1) @@ (i :> db2) @@ s2.dbs,
           id |-> SwapIds(s2.id, db1, db2, i, j)],
          s2>>

\* Miniredis.DB(i), under the mutex.
DB(i) ==
    /\ mLock = Free
    /\ LET r == Db([dbs |-> dbs, id |-> dbId], i)
       IN  /\ dbs' = r[1].dbs
           /\ dbId' = r[1].id
           /\ dbOp' = <<"DB", i, r[2]>>
    /\ dbSeq' = 1 - dbSeq
    /\ UNCHANGED preSwap
    /\ UNCHANGED <<srvVars, connVars, mVars, histVars, kvVars, typeVars, authVars, panicVars, writeVars, subVars, txVars, lockVars, raceVars>>

\* Miniredis.SwapDB(i, j), under the mutex.
SwapDB(i, j) ==
    /\ mLock = Free
    /\ LET r == SwapDBState([dbs |-> dbs, id |-> dbId], i, j)
       IN  /\ dbs' = r[1].dbs
           /\ dbId' = r[1].id
           /\ preSwap' = r[2].dbs
    /\ dbOp' = <<"SwapDB", i, j>>
    /\ dbSeq' = 1 - dbSeq
    /\ UNCHANGED <<srvVars, connVars, mVars, histVars, kvVars, typeVars, authVars, panicVars, writeVars, subVars, txVars, lockVars, raceVars>>

NextDB ==
    \/ \E i \in DbIds : DB(i)
    \/ \E i, j \in DbIds : SwapDB(i, j)

SpecDB == Init /\ [][NextDB]_vars

\* ------------------------------------------------------ writers of a peer
\* The goroutines that write to a peer: the worker running a handler, and
\* the pump subscribedState starts for the peer's subscriber.
Writers == {"handler", "pump"}

\* What each writes, as a sequence of Block calls, each a sequence of Writer
\* calls.  The handler writes an array reply with c.WriteLen and
\* c.WriteBulk, each of which is a Block of its own; the pump writes a push
\* frame inside one Block.
Blocks(w) ==
    IF w = "handler"
    THEN <<<<"reply*">>, <<"reply$">>>>
    ELSE <<<<"push*", "push$">>>>

\* A handler calls subscribedState under the Miniredis mutex: the peer gets
\* its subscriber and the pump goroutine.
EnterSubscribed(c) ==
    /\ mLock = Free
    /\ ctxSub[c] = NoSub
    /\ SubscribedState(c)
    /\ UNCHANGED <<srvVars, histVars, kvVars, typeVars, authVars, panicVars, dbVars, writeVars, subVars, txVars, lockVars, raceVars>>
    /\ UNCHANGED <<mLock, mSrv, kpc>>
    /\ UNCHANGED <<wpc, sock, clientClosed, sockIn, rbuf, cur, call, wbuf, out,
                   closed, ran>>

\* Peer.Block: c.mu.Lock()
BlockLock(c, w) ==
    /\ ~wr[c][w].held
    /\ wr[c][w].blk <= Len(Blocks(w))
    /\ w = "pump" => ctxSub[c] # NoSub
    /\ pMu[c] = "free"
    /\ pMu' = [pMu EXCEPT ![c] = w]
    /\ wr' = [wr EXCEPT ![c][w].held = TRUE, ![c][w].itm = 1]
    /\ UNCHANGED <<srvVars, connVars, mVars, histVars, kvVars, typeVars, authVars, panicVars, dbVars, subVars, txVars, lockVars, raceVars>>

\* Peer.Block: f(&Writer{c.w}), one Writer call of the closure
BlockWrite(c, w) ==
    /\ wr[c][w].held
    /\ wr[c][w].itm <= Len(Blocks(w)[wr[c][w].blk])
    /\ wbuf' = [wbuf EXCEPT ![c] = Append(@, Blocks(w)[wr[c][w].blk][wr[c][w].itm])]
    /\ wr' = [wr EXCEPT ![c][w].itm = @ + 1]
    /\ UNCHANGED pMu
    /\ UNCHANGED <<srvVars, mVars, histVars, kvVars, typeVars, authVars, panicVars, dbVars, subVars, txVars, lockVars, raceVars>>
    /\ UNCHANGED <<wpc, sock, clientClosed, sockIn, rbuf, cur, call, out,
                   closed, onDisconnect, ran>>

\* Peer.Block: the deferred c.mu.Unlock()
BlockUnlock(c, w) ==
    /\ wr[c][w].held
    /\ wr[c][w].itm > Len(Blocks(w)[wr[c][w].blk])
    /\ pMu' = [pMu EXCEPT ![c] = "free"]
    /\ wr' = [wr EXCEPT ![c][w].held = FALSE, ![c][w].blk = @ + 1]
    /\ UNCHANGED <<srvVars, connVars, mVars, histVars, kvVars, typeVars, authVars, panicVars, dbVars, subVars, txVars, lockVars, raceVars>>

NextWrite ==
    \/ \E c \in Conns : EnterSubscribed(c)
    \/ \E c \in Conns, w \in Writers : BlockLock(c, w)
    \/ \E c \in Conns, w \in Writers : BlockWrite(c, w)
    \/ \E c \in Conns, w \in Writers : BlockUnlock(c, w)

SpecWrite == Init /\ [][NextWrite]_vars

\* ------------------------------------------- leaving the subscribed state
\* endSubscriber, called by a handler under the Miniredis mutex: the peer's
\* subscriber, if it has one, is removed and closed, and the peer has none.
DispatchUnsub(c) ==
    /\ wpc[c] = "call"
    /\ call[c][1] = "unsub"
    /\ mLock = Free
    /\ IF ctxSub[c] # NoSub
       THEN /\ subscribers' = RemoveSubscriber(subscribers, ctxSub[c])
            /\ subCloses' = SubscriberClosed(subscribers, subCloses, ctxSub[c])
       ELSE UNCHANGED <<subscribers, subCloses>>
    /\ ctxSub' = [ctxSub EXCEPT ![c] = NoSub]
    /\ wbuf' = [wbuf EXCEPT ![c] = Append(@, "+OK")]
    /\ log' = [log EXCEPT ![c] = Append(@, call[c])]
    /\ wpc' = [wpc EXCEPT ![c] = "flush"]
    /\ UNCHANGED <<srvVars, mLock, mSrv, kpc, delivered>>
    /\ UNCHANGED <<sock, clientClosed, sockIn, rbuf, cur, call, out, closed,
                   onDisconnect, ran>>
    /\ UNCHANGED <<sent, observed, sweptHanded, swept, srvCloses, lastReg>>
    /\ UNCHANGED <<kvVars, typeVars, authVars, panicVars, dbVars, writeVars, txVars, lockVars, raceVars>>

\* Miniredis.publish under the Miniredis mutex: every subscriber in
\* m.subscribers is handed the message.
Publish ==
    /\ mLock = Free
    /\ delivered' = subscribers
    /\ UNCHANGED subCloses
    /\ UNCHANGED <<srvVars, connVars, mVars, histVars>>
    /\ UNCHANGED <<kvVars, typeVars, authVars, panicVars, dbVars, writeVars, txVars, lockVars, raceVars>>

\* A started Miniredis with SUBSCRIBE and a command that leaves the
\* subscribed state, and one client that sends them while messages are
\* published and the server may be closed.
SubCmds == (<<"U">> :> "unsub") @@ StartCmds
InitSub == InitWith(SubCmds)
SubUnsubFrames == {<<<<"s">>>>, <<<<"u">>>>}

NextSub ==
    \/ \E c \in PipeConns : ServeConn(c)
    \/ AcceptExit
    \/ \E c \in PipeConns, f \in SubUnsubFrames : ClientSend(c, f, MaxSubReqs)
    \/ \E c \in PipeConns : ClientClose(c)
    \/ \E c \in PipeConns : WorkerStep(c)
    \/ \E c \in PipeConns : DispatchUnsub(c)
    \/ Publish
    \/ MiniredisClose(1)
    \/ ServerCloseSweep(1)
    \/ ServerCloseWait(1)

SpecSub == InitSub /\ [][NextSub]_vars

\* Clients that open and end transactions while errors are reported.
NextTx ==
    \/ \E c \in Conns : SetDirty(c)
    \/ \E c \in Conns : CmdMulti(c)
    \/ \E c \in Conns : CmdExec(c)

SpecTx == Init /\ [][NextTx]_vars

\* ----------------------------------------------------------- lock order
\* The goroutines that take the keyspace lock "m" (the Miniredis mutex), the
\* server lock "s" (Server.mu) and a peer's write mutex "p" (Peer.mu): the
\* worker of each connection running a handler, the pump of each peer, a
\* caller of a counter accessor and a caller of Close.
Goroutines ==
    ({"handler", "pump"} \X Conns) \cup {<<"accessor", 0>>, <<"close", 0>>}

Acq(l) == <<"acq", l>>
Rel(l) == <<"rel", l>>

\* A handler that writes its reply in a Block whose closure takes the
\* keyspace lock.
LockOpsInverted(kind) ==
    CASE kind = "handler" ->
            <<Acq("s"), Rel("s"), Acq("p"), Acq("m"), Rel("m"), Rel("p")>>
      [] kind = "pump" -> <<Acq("p"), Rel("p")>>
      [] kind = "accessor" -> <<Acq("m"), Acq("s"), Rel("s"), Rel("m")>>
      [] OTHER -> <<Acq("m"), Rel("m"), Acq("s"), Rel("s")>>

\* The lock operations of each kind of goroutine, in program order.
\*   handler:  ServeConn registers the peer (s); dispatch looks the command
\*             up and counts it (s, s); the handler calls handleAuth, which
\*             writes the NOAUTH error under the keyspace lock (m, p inside);
\*             servePeer flushes (p) and reads the closed flag (s); the
\*             disconnect callback removes the subscriber (m); ServeConn
\*             unregisters the peer (s).
\*   pump:     one Block (p).
\*   accessor: CommandCount locks m and calls TotalCommands (s inside).
\*   close:    Miniredis.Close locks and unlocks m, then Server.Close (s).
LockOps(kind) ==
    CASE kind = "handler" ->
            <<Acq("s"), Rel("s"),
              Acq("s"), Rel("s"), Acq("s"), Rel("s"),
              Acq("m"), Acq("p"), Rel("p"), Rel("m"),
              Acq("p"), Rel("p"),
              Acq("s"), Rel("s"),
              Acq("m"), Rel("m"),
              Acq("s"), Rel("s")>>
      [] kind = "pump" -> <<Acq("p"), Rel("p")>>
      [] kind = "accessor" -> <<Acq("m"), Acq("s"), Rel("s"), Rel("m")>>
      [] OTHER -> <<Acq("m"), Rel("m"), Acq("s"), Rel("s")>>

\* The operation goroutine g is at: <<>> when it has finished.
LockOp(g) ==
    IF lpc[g] <= Len(LockOps(g[1])) THEN LockOps(g[1])[lpc[g]] ELSE <<>>

\* g holds lock l; "p" is the write mutex of g's own peer.
Holds(g, l) ==
    CASE l = "m" -> mLock = g
      [] l = "s" -> sMu = g
      [] OTHER -> g[2] \in Conns /\ pMu[g[2]] = g[1]

LockIsFree(g, l) ==
    CASE l = "m" -> mLock = Free
      [] l = "s" -> sMu = <<>>
      [] OTHER -> pMu[g[2]] = "free"

\* Lock(): the goroutine waits until the lock is free and takes it.
LockAcquire(g) ==
    /\ LockOp(g) # <<>>
    /\ LockOp(g)[1] = "acq"
    /\ LockIsFree(g, LockOp(g)[2])
    /\ mLock' = IF LockOp(g)[2] = "m" THEN g ELSE mLock
    /\ sMu' = IF LockOp(g)[2] = "s" THEN g ELSE sMu
    /\ pMu' = IF LockOp(g)[2] = "p" THEN [pMu EXCEPT ![g[2]] = g[1]] ELSE pMu
    /\ lpc' = [lpc EXCEPT ![g] = @ + 1]
    /\ UNCHANGED <<srvVars, connVars, mSrv, subscribers, ctxSub, kpc, histVars,
                   kvVars, wr>>
    /\ UNCHANGED <<typeVars, authVars, panicVars, dbVars, subVars, txVars, raceVars>>

\* Unlock()
LockRelease(g) ==
    /\ LockOp(g) # <<>>
    /\ LockOp(g)[1] = "rel"
    /\ mLock' = IF LockOp(g)[2] = "m" THEN Free ELSE mLock
    /\ sMu' = IF LockOp(g)[2] = "s" THEN <<>> ELSE sMu
    /\ pMu' = IF LockOp(g)[2] = "p" THEN [pMu EXCEPT ![g[2]] = "free"] ELSE pMu
    /\ lpc' = [lpc EXCEPT ![g] = @ + 1]
    /\ UNCHANGED <<srvVars, connVars, mSrv, subscribers, ctxSub, kpc, histVars,
                   kvVars, wr>>
    /\ UNCHANGED <<typeVars, authVars, panicVars, dbVars, subVars, txVars, raceVars>>

NextLocks ==
    \/ \E g \in Goroutines : LockAcquire(g)
    \/ \E g \in Goroutines : LockRelease(g)

SpecLocks == Init /\ [][NextLocks]_vars

\* ------------------------------------------------ accesses of Peer.closed
\* servePeer after a command: s.mu.Lock()
FlagReadLock(c) ==
    /\ flagReader[c] = "idle"
    /\ sMu = <<>>
    /\ sMu' = <<"handler", c>>
    /\ flagReader' = [flagReader EXCEPT ![c] = "read"]
    /\ UNCHANGED <<flagWriter, flagSeen, lpc>>
    /\ UNCHANGED <<srvVars, connVars, mVars, histVars, kvVars>>
    /\ UNCHANGED <<typeVars, authVars, panicVars, dbVars, writeVars, subVars, txVars>>

\* servePeer: closed := peer.closed.  The read is ordered with a Peer.Close
\* of another goroutine only by a common mutex; while that goroutine is
\* between its Lock and Unlock of c.mu the two accesses race, and the read
\* yields the old or the new value.
FlagRead(c) ==
    /\ flagReader[c] = "read"
    /\ \E v \in (IF flagWriter[c] = "write" THEN BOOLEAN ELSE {closed[c]}) :
           flagSeen' = [flagSeen EXCEPT ![c] = v]
    /\ flagReader' = [flagReader EXCEPT ![c] = "unlock"]
    /\ UNCHANGED <<flagWriter, lockVars>>
    /\ UNCHANGED <<srvVars, connVars, mVars, histVars, kvVars>>
    /\ UNCHANGED <<typeVars, authVars, panicVars, dbVars, writeVars, subVars, txVars>>

\* servePeer: s.mu.Unlock()
FlagReadUnlock(c) ==
    /\ flagReader[c] = "unlock"
    /\ sMu' = <<>>
    /\ flagReader' = [flagReader EXCEPT ![c] = "idle"]
    /\ UNCHANGED <<flagWriter, flagSeen, lpc>>
    /\ UNCHANGED <<srvVars, connVars, mVars, histVars, kvVars>>
    /\ UNCHANGED <<typeVars, authVars, panicVars, dbVars, writeVars, subVars, txVars>>

\* Peer.Close called by a goroutine other than the worker: c.mu.Lock()
PeerCloseLock(c) ==
    /\ flagWriter[c] = "idle"
    /\ pMu[c] = "free"
    /\ pMu' = [pMu EXCEPT ![c] = "other"]
    /\ flagWriter' = [flagWriter EXCEPT ![c] = "write"]
    /\ UNCHANGED <<flagReader, flagSeen, wr>>
    /\ UNCHANGED <<srvVars, connVars, mVars, histVars, kvVars>>
    /\ UNCHANGED <<typeVars, authVars, panicVars, dbVars, subVars, txVars, lockVars>>

\* Peer.Close: c.closed = true
PeerCloseWrite(c) ==
    /\ flagWriter[c] = "write"
    /\ PeerClose(c)
    /\ flagWriter' = [flagWriter EXCEPT ![c] = "unlock"]
    /\ UNCHANGED <<flagReader, flagSeen>>
    /\ UNCHANGED <<srvVars, mVars, histVars, kvVars>>
    /\ UNCHANGED <<wpc, clientClosed, sockIn, rbuf, cur, call, wbuf, out,
                   onDisconnect, ran>>
    /\ UNCHANGED <<typeVars, authVars, panicVars, dbVars, writeVars, subVars, txVars, lockVars>>

\* Peer.Close: the deferred c.mu.Unlock()
PeerCloseUnlock(c) ==
    /\ flagWriter[c] = "unlock"
    /\ pMu' = [pMu EXCEPT ![c] = "free"]
    /\ flagWriter' = [flagWriter EXCEPT ![c] = "done"]
    /\ UNCHANGED <<flagReader, flagSeen, wr>>
    /\ UNCHANGED <<srvVars, connVars, mVars, histVars, kvVars>>
    /\ UNCHANGED <<typeVars, authVars, panicVars, dbVars, subVars, txVars, lockVars>>

NextFlag ==
    \/ \E c \in Conns : FlagReadLock(c)
    \/ \E c \in Conns : FlagRead(c)
    \/ \E c \in Conns : FlagReadUnlock(c)
    \/ \E c \in Conns : PeerCloseLock(c)
    \/ \E c \in Conns : PeerCloseWrite(c)
    \/ \E c \in Conns : PeerCloseUnlock(c)

SpecFlag == Init /\ [][NextFlag]_vars

\* =================================================================== C1
\* C1: Server.Close() closes the socket of every connection that was handed
\* to ServeConn before Close swept the peers, and returns without any client
\* closing its end: once Close has swept, no connection handed to ServeConn
\* before the sweep is still open.
C1_CloseClosesEveryHandedConn ==
    swept => \A c \in sweptHanded : ~SockOpen(c)

\* =================================================================== C2
\* The frames of connection c, in order, whose handler called Peer.Close().
ClosingReplies(c) == {i \in DOMAIN log[c] : log[c][i] # <<>> /\ log[c][i][1] = "quit"}

\* The client of c has the whole reply of the first command that asked for
\* the close: every dispatched frame writes one reply item, in order.
HasClosingReply(c) ==
    \E i \in ClosingReplies(c) : Len(out[c]) >= i /\ out[c][i] = "+OK"

\* C2 as stated: whenever a handler has called Peer.Close() and the server
\* side of the connection is closed, the client (still connected) has the
\* full reply of the closing command.
C2_ReplyAlwaysBeforeEof ==
    \A c \in Conns :
        (ClosingReplies(c) # {} /\ ~SockOpen(c) /\ ~clientClosed[c])
            => HasClosingReply(c)

\* C2 amended: Peer.Close() does not close the connection; when it is the
\* worker's deferred close that closes it, the client (still connected) has
\* the full reply of the closing command.
C2_DeferredCloseAfterReply ==
    \A c \in Conns :
        (sock[c] = "deferred" /\ ~clientClosed[c]) => HasClosingReply(c)

\* The worker has closed the connection of a client that is still there,
\* after a QUIT.
C2_Witness ==
    \E c \in Conns :
        /\ sock[c] = "deferred"
        /\ ~clientClosed[c]
        /\ log[c] # <<>>
        /\ log[c][1] = <<"quit", <<"Q">>, <<>>>>

\* =================================================================== C3
\* C3: once the worker has observed the pending-close flag, no later request
\* of that peer is dispatched.
C3_NoDispatchAfterClose ==
    \A c \in Conns : observed[c] => wpc[c] \notin {"lookup", "count", "call"}

\* =================================================================== C4
\* A worker that Close's sweep missed: it runs on a connection that is still
\* open, so only its client can end it.
LateConn == \E c \in Conns : wpc[c] \notin {"none", "done"} /\ SockOpen(c)

\* Every worker has exited and has run every disconnect callback of its peer.
AllCallbacksRan ==
    /\ \A c \in Conns : wpc[c] \in {"none", "done"} /\ ran[c] = onDisconnect[c]
    /\ subscribers = {}

\* C4: Miniredis.Close() does not hold the keyspace lock while it waits for
\* the workers, so with connected peers whose disconnect callbacks lock the
\* keyspace it never waits for ever (unless a connection its sweep missed
\* stays open), and when it returns every callback has run.
C4_CloseNeverDeadlocks ==
    \A k \in Closers :
        /\ [](kpc[k] = "wait" => mLock # Closer(k))
        /\ []<>(kpc[k] # "wait" \/ LateConn)
        /\ [](kpc[k] = "closed" => AllCallbacksRan)

\* Close has returned after closing the connection of a subscribed peer,
\* whose callback has removed the subscriber.
C4_Witness ==
    \E k \in Closers, c \in Conns :
        /\ kpc[k] = "closed"
        /\ sock[c] = "server"
        /\ ran[c] # <<>>
        /\ ctxSub[c] \notin subscribers

\* =================================================================== C5
\* C5: for any number of sequential or concurrent Miniredis.Close() calls the
\* server's Close is invoked at most once, and every call returns.
C5_CloseIdempotent ==
    /\ [](srvCloses <= 1)
    /\ \A k \in Closers : (kpc[k] # "idle") ~> (kpc[k] \in {"noop", "closed"})

\* =================================================================== C7
Handed == {c \in Conns : wpc[c] # "none"}
Registered == {c \in Conns : wpc[c] \notin {"none", "spawned"}}

\* C7 as stated: TotalConnections equals, in every state, the number of
\* ServeConn invocations made so far.
C7_CountsServeConnCalls == infoConns = Cardinality(Handed)

\* C7 amended: TotalConnections never decreases, never exceeds the number of
\* ServeConn invocations, and equals the number of invocations whose worker
\* has registered its connection.
C7_CountsRegisteredConns ==
    /\ [](infoConns = Cardinality(Registered) /\ infoConns <= Cardinality(Handed))
    /\ [][infoConns' >= infoConns]_vars

\* One connection is counted and has gone; another has been handed to
\* ServeConn and is not counted yet.
C7_Witness ==
    \E c, d \in Conns :
        wpc[c] = "done" /\ wpc[d] = "spawned" /\ infoConns = 1

\* =================================================================== C6
\* C6: Register(cmd, f) stores f under the uppercased name and returns no
\* error when that name is free; when it is taken, in whatever letter case,
\* it returns the error and leaves the registry as it is.  No entry of the
\* registry ever changes, and a worker that dispatches a command calls the
\* handler the registry holds for its uppercased name.
C6_RegisterKeepsFirst ==
    /\ [][lastReg' # lastReg =>
            LET up == ToUpper(lastReg'[1])
            IN  IF up \in DOMAIN cmds
                THEN lastReg'[3] /\ cmds' = cmds
                ELSE /\ ~lastReg'[3]
                     /\ DOMAIN cmds' = DOMAIN cmds \cup {up}
                     /\ cmds'[up] = lastReg'[2]]_vars
    /\ [][\A u \in DOMAIN cmds : u \in DOMAIN cmds' /\ cmds'[u] = cmds[u]]_vars
    /\ [](\A c \in Conns :
            wpc[c] \in {"count", "call"} =>
                /\ ToUpper(Head(cur[c])) \in DOMAIN cmds
                /\ call[c][1] = cmds[ToUpper(Head(cur[c]))])

\* A second registration of a name, in lower case, has been refused while a
\* worker is about to call the handler registered first under it.
C6_Witness ==
    \E c \in Conns :
        /\ lastReg # <<>>
        /\ lastReg[3]
        /\ lastReg[1] # ToUpper(lastReg[1])
        /\ wpc[c] = "call"
        /\ call[c][2] = ToUpper(lastReg[1])
        /\ call[c][1] # lastReg[2]

\* =================================================================== C8
\* The handler invocations of the worker of c so far.
HandlerCalls(c) == Cardinality({i \in DOMAIN log[c] : log[c][i] # <<>>})

RECURSIVE SumCalls(_)
SumCalls(S) ==
    IF S = {} THEN 0
    ELSE LET c == CHOOSE x \in S : TRUE IN HandlerCalls(c) + SumCalls(S \ {c})

\* C8: a request for a registered command adds exactly one to TotalCommands
\* and calls the handler once, with the uppercased name and the remaining
\* arguments; a request for an unknown command calls no handler, leaves the
\* counter alone, writes one error reply and leaves the connection open.
\* With several workers no increment is lost: the counter is the number of
\* handler invocations made or about to be made.
C8_CountsKnownCommands ==
    /\ [](infoCmds = SumCalls(Conns) + Cardinality({c \in Conns : wpc[c] = "call"}))
    /\ [][\A c \in Conns :
            LET up == ToUpper(Head(cur[c]))
            IN  /\ (wpc[c] = "lookup" /\ wpc'[c] = "flush") =>
                    /\ up \notin DOMAIN cmds
                    /\ infoCmds' = infoCmds
                    /\ log'[c] = Append(log[c], <<>>)
                    /\ wbuf'[c] = Append(wbuf[c], "-ERR")
                    /\ sock'[c] = sock[c]
                    /\ closed'[c] = closed[c]
                /\ (wpc[c] = "lookup" /\ wpc'[c] = "count") =>
                    /\ up \in DOMAIN cmds
                    /\ infoCmds' = infoCmds
                    /\ log'[c] = log[c]
                /\ (wpc[c] = "count" /\ wpc'[c] = "call") =>
                    /\ infoCmds' = infoCmds + 1
                    /\ log'[c] = log[c]
                /\ (wpc[c] = "call" /\ wpc'[c] = "flush") =>
                    /\ infoCmds' = infoCmds
                    /\ log'[c] = Append(log[c], <<cmds[up], up, Tail(cur[c])>>)]_vars

\* One worker has called the handler of a command sent in lower case with an
\* argument; another has answered an unknown command and reads on.
C8_Witness ==
    \E c, d \in Conns :
        /\ <<"Q">> \in DOMAIN cmds
        /\ log[c] = <<<<cmds[<<"Q">>], <<"Q">>, <<"a">>>>>>
        /\ cur[c] = <<<<"q">>, "a">>
        /\ log[d] = <<<<>>>>
        /\ out[d] = <<"-ERR">>
        /\ wpc[d] = "read"
        /\ SockOpen(d)
        /\ infoCmds = 1

\* =================================================================== C9
\* C9: SET/GET round trip.  A SET succeeds exactly when it has two
\* arguments; every GET of a key, on any connection, replies the value of
\* the last successful SET of that key in the order the keyspace lock
\* serialised the commands, and the null bulk string for a key that no
\* successful SET has named.
C9_SetGetRoundTrip ==
    [][seq' # seq =>
         /\ last'[2] = "GET" =>
                last'[4] = IF last'[3][1] \in DOMAIN lastSet
                           THEN <<"$", lastSet[last'[3][1]][1]>>
                           ELSE <<"$-1">>
         /\ last'[2] = "SET" =>
                ((last'[4] = <<"+OK">>) <=> (Len(last'[3]) = 2))]_vars

\* A GET of "a" on one connection replies "b", the value that another
\* connection SET last.
C9_Witness ==
    /\ Len(last) = 5
    /\ last[2] = "GET"
    /\ last[3] = <<"a">>
    /\ last[4] = <<"$", "b">>
    /\ "a" \in DOMAIN lastSet
    /\ lastSet["a"][2] # last[1]

\* =================================================================== C10
\* C10: an EXEC that is neither refused nor EXECABORTed, issued by a peer
\* one of whose watched keys another connection has SET since the WATCH,
\* replies the null array.
C10_SetAfterWatchAbortsExec ==
    (/\ Len(last) = 5
     /\ last[2] = "EXEC"
     /\ last[5] # {}
     /\ last[4][1] # "-")
        => last[4] = <<"*-1">>

\* =================================================================== C11
\* C11: every successful SET of a key strictly increases the key's version
\* in the database of the connection that issued it.
C11_SetBumpsKeyVersion ==
    [][(seq' # seq /\ last'[2] = "SET" /\ last'[4] = <<"+OK">>) =>
           keyVersion'[SelectedDB(last'[1])][last'[3][1]]
               > keyVersion[SelectedDB(last'[1])][last'[3][1]]]_vars

\* =================================================================== C12
\* C12: a key is in the type index exactly when it is in exactly one typed
\* value map, and then the index names that map's type; so a key that has
\* been SET is indexed as "string".
C12_TypeIndexMatchesMaps ==
    \A k \in Strs :
        IF k \in DOMAIN keys
        THEN OwningTypes(k) = {keys[k]}
        ELSE Cardinality(OwningTypes(k)) # 1

C14_HandlerPanicIsTrapped == alive

\* =================================================================== C15
\* o is the database a call of DB(i) returns in the current state: the one
\* the map points to, or one that did not exist.
WouldReturn(i, o) ==
    IF i \in DOMAIN dbs THEN o = dbs[i] ELSE o \notin DOMAIN dbId

\* C15: database navigation keeps the labels consistent.  Every database
\* the map points to carries the id it is stored under; two DB(i) calls in a
\* row return the same database; SwapDB(i, j) makes each of the two ids
\* point to the database DB of the other id returned before, and leaves
\* every other id alone; and a SwapDB of the same two ids right after a
\* SwapDB restores the map.
C15_DbNavigation ==
    /\ [](\A n \in DOMAIN dbs : dbId[dbs[n]] = n)
    /\ [][dbSeq' # dbSeq =>
            /\ (dbOp'[1] = "DB" /\ dbOp # <<>> /\ dbOp[1] = "DB" /\ dbOp[2] = dbOp'[2])
                   => dbOp'[3] = dbOp[3]
            /\ dbOp'[1] = "DB" =>
                   /\ dbs'[dbOp'[2]] = dbOp'[3]
                   /\ WouldReturn(dbOp'[2], dbOp'[3])
            /\ dbOp'[1] = "SwapDB" =>
                   LET i == dbOp'[2]
                       j == dbOp'[3]
                   IN  /\ WouldReturn(j, dbs'[i])
                       /\ WouldReturn(i, dbs'[j])
                       /\ i # j => dbs'[i] # dbs'[j]
                       /\ \A n \in DOMAIN dbs \ {i, j} : dbs'[n] = dbs[n]
                       /\ DOMAIN dbs' = DOMAIN dbs \cup {i, j}
            /\ (dbOp'[1] = "SwapDB" /\ dbOp # <<>> /\ dbOp[1] = "SwapDB"
                  /\ {dbOp[2], dbOp[3]} = {dbOp'[2], dbOp'[3]})
                   => dbs' = preSwap]_vars

\* SwapDB(1, 2) has been called twice in a row: the databases made for the
\* ids 1 and 2 are back under these ids and carry them as labels.
C15_Witness ==
    /\ dbOp = <<"SwapDB", 1, 2>>
    /\ DOMAIN dbs = {0, 1, 2}
    /\ dbs[1] = 2 /\ dbs[2] = 3
    /\ dbId[2] = 1 /\ dbId[3] = 2
    /\ preSwap = (1 :> 3) @@ (2 :> 2) @@ (0 :> 1)

\* =================================================================== C16
IsPrefix(s, t) == Len(s) <= Len(t) /\ s = SubSeq(t, 1, Len(s))

LeftLoop(c) == wpc[c] \in {"disc", "exit", "done"}

C17_ReplyNotInterleaved ==
    \A c \in Conns :
        \A i, j, k \in DOMAIN wbuf[c] :
            (i < j /\ j < k /\ wbuf[c][i] = "reply*" /\ wbuf[c][k] = "reply$")
                => wbuf[c][j] \notin {"push*", "push$"}

\* =================================================================== C18
\* The subscribers subscribedState has made for peer c.
SubsOf(c) == {onDisconnect[c][i] : i \in DOMAIN onDisconnect[c]}

\* C18: subscriber cleanup.  No subscriber is closed more than once and a
\* closed subscriber is not in the registry; when a peer's worker has
\* exited, none of the peer's subscribers is in the registry and each has
\* been closed exactly once; and a PUBLISH never delivers to a subscriber
\* that has been closed.
C18_SubscriberCleanup ==
    /\ [](\A s \in DOMAIN subCloses : subCloses[s] = 1 /\ s \notin subscribers)
    /\ [](\A c \in Conns :
            wpc[c] = "done" =>
                /\ \A s \in subscribers : s[1] # c
                /\ \A s \in SubsOf(c) : s \in DOMAIN subCloses /\ subCloses[s] = 1)
    /\ [][(delivered' \ delivered) \cap DOMAIN subCloses = {}]_vars

\* A peer entered the subscribed state, left it, entered it again and
\* disconnected: both subscribers are closed once, and a PUBLISH in between
\* reached only the second.
C18_Witness ==
    \E c \in Conns :
        /\ wpc[c] = "done"
        /\ Len(onDisconnect[c]) = 2
        /\ ran[c] = onDisconnect[c]
        /\ DOMAIN subCloses = SubsOf(c)
        /\ delivered = {onDisconnect[c][2]}

Held(g) == {l \in {"m", "s", "p"} : Holds(g, l)}
Trying(g) == LockOp(g) # <<>> /\ LockOp(g)[1] = "acq"
Blocked(g) == Trying(g) /\ ~LockIsFree(g, LockOp(g)[2])

\* The goroutine that holds the lock g is blocked on.
BlockedOn(g) ==
    CASE LockOp(g)[2] = "m" -> mLock
      [] LockOp(g)[2] = "s" -> sMu
      [] OTHER -> <<pMu[g[2]], g[2]>>

\* C20: the lock hierarchy.  A goroutine that calls Lock() on the keyspace
\* lock holds none of the three locks; one that calls Lock() on the server
\* lock or on a peer write mutex holds at most the keyspace lock; and no
\* set of goroutines is blocked on locks held inside the set.
C20_LockHierarchy ==
    /\ \A g \in Goroutines :
          Trying(g) =>
              /\ LockOp(g)[2] = "m" => Held(g) = {}
              /\ LockOp(g)[2] \in {"s", "p"} => Held(g) \subseteq {"m"}
    /\ \A S \in SUBSET Goroutines \ {{}} :
          ~(\A g \in S : Blocked(g) /\ BlockedOn(g) \in S)

\* A handler holds the keyspace lock and, inside it, its peer's write
\* mutex; the peer's pump is blocked on the write mutex and the accessor on
\* the keyspace lock.
C20_Witness ==
    \E c \in Conns :
        /\ Held(<<"handler", c>>) = {"m", "p"}
        /\ Blocked(<<"pump", c>>)
        /\ Blocked(<<"accessor", 0>>)
        /\ BlockedOn(<<"accessor", 0>>) = <<"handler", c>>

\* =================================================================== C21
\* C21: the worker's read of a peer's pending-close flag and a Peer.Close
\* of another goroutine never execute at the same time: the worker is never
\* at its read, inside its mutex, while the other goroutine is at its
\* write, inside its own.
C21_FlagAccessExclusive ==
    \A c \in Conns : ~(flagReader[c] = "read" /\ flagWriter[c] = "write")

====
